---- MODULE Spec2Model ----
(***************************************************************************)
(* check_aws_budgets.py: an Icinga/Nagios plug-in that fetches the budgets *)
(* of an AWS account, classifies each one as overspent or within limit,    *)
(* prints one status line with performance data and exits with the plug-in *)
(* state as the process exit code.                                         *)
(*                                                                         *)
(* Amounts arrive from the provider as decimal strings.  A string is       *)
(* modelled as the sequence of its characters, and float() as the parser   *)
(* that turns it into a number, held in thousandths.                       *)
(***************************************************************************)
EXTENDS Integers, Sequences, FiniteSets, TLC

\* ------------------------------------------------------------------ bounds
MaxBudgets == 2
MaxPages == 2

\* ------------------------------------------------------- program constants
STATE_OK == 0
STATE_WARN == 1
STATE_CRIT == 2
STATE_UNKNOWN == 3

\* Exit status of a process that has not exited yet.
Running == -1

\* A dict lookup of a key the provider's record does not hold.
NoKey == <<"KeyError">>

\* A local variable of main() that has not been bound yet.
Unbound == "<unbound>"

\* ------------------------------------------------------ provider's records
Names == {"infra", "db", "web"}

A80 == <<"8", "0", ".", "0">>
A100 == <<"1", "0", "0", ".", "0">>
A100b == <<"1", "0", "0", ".", "0", "0">>
A100m == <<"1", "0", "0", ".", "0", "0", "4">>
A120 == <<"1", "2", "0">>

\* The shapes of record the provider returns: limit, forecast, actual.
Shapes ==
    { <<A100, A120, A80>>,      \* forecast over the limit, actual under it
      <<A100, NoKey, A80>>,     \* no forecast, actual under the limit
      <<A100, NoKey, A120>>,    \* no forecast, actual over the limit
      <<A100, A80, A120>>,      \* forecast under the limit, actual over it
      <<A100, A100b, A80>>,     \* forecast equal to the limit
      <<A100, NoKey, A100b>>,   \* no forecast, actual equal to the limit
      <<A100, NoKey, A100m>>,   \* actual over the limit by less than a cent
      <<A100, A120, NoKey>>,    \* record without ActualSpend
      <<A100, NoKey, NoKey>>,   \* record without CalculatedSpend amounts
      <<NoKey, A120, A80>> }    \* record without BudgetLimit

Budget(name, shape) ==
    [BudgetName |-> name, Limit |-> shape[1], Forecast |-> shape[2],
     Actual |-> shape[3], Unit |-> "USD"]

BudgetPool == { Budget(n, s) : n \in Names, s \in Shapes }

NamesOf(bs) == { bs[i].BudgetName : i \in 1..Len(bs) }

\* The pages a describe_budgets call can return once `have` was fetched:
\* budget names are unique within an account.
PagesAfter(have) ==
    { p \in UNION { [1..n -> BudgetPool] : n \in 0..(MaxBudgets - Len(have)) } :
        /\ \A i, j \in 1..Len(p) : i # j => p[i].BudgetName # p[j].BudgetName
        /\ NamesOf(p) \cap NamesOf(have) = {} }

\* The exceptions a boto3 call raises.
ProviderErrors == {"BotoCoreError", "ClientError"}

\* ----------------------------------------------------- strings and numbers
DigitVal(c) ==
    CASE c = "0" -> 0 [] c = "1" -> 1 [] c = "2" -> 2 [] c = "3" -> 3
      [] c = "4" -> 4 [] c = "5" -> 5 [] c = "6" -> 6 [] c = "7" -> 7
      [] c = "8" -> 8 [] c = "9" -> 9

RECURSIVE ParseDigits(_, _)
ParseDigits(s, acc) ==
    IF s = <<>> THEN acc
    ELSE ParseDigits(Tail(s), acc * 10 + DigitVal(Head(s)))

DotPos(s) ==
    IF \E i \in 1..Len(s) : s[i] = "."
    THEN CHOOSE i \in 1..Len(s) : s[i] = "."
    ELSE Len(s) + 1

\* float(text): the number a decimal string denotes, in thousandths.
float(s) ==
    LET d == DotPos(s)
        frac == SubSeq(SubSeq(s, d + 1, Len(s)) \o <<"0", "0", "0">>, 1, 3)
    IN ParseDigits(SubSeq(s, 1, d - 1), 0) * 1000 + ParseDigits(frac, 0)

\* format(x, ".2f") of a number held in thousandths.
Format2f(x) ==
    LET cents == (x + 5) \div 10
    IN ToString(cents \div 100) \o "." \o ToString((cents % 100) \div 10)
         \o ToString(cents % 10)

\* The text of a string held as its characters.
RECURSIVE str(_)
str(s) == IF s = <<>> THEN "" ELSE Head(s) \o str(Tail(s))

\* sep.join(items)
RECURSIVE join(_, _)
join(sep, items) ==
    IF items = <<>> THEN ""
    ELSE IF Len(items) = 1 THEN items[1]
    ELSE items[1] \o sep \o join(sep, Tail(items))

\* ------------------------------------------------------------------- state
VARIABLES
    budget_arg,   \* args.budget: "" when --budget was not given
    pc,           \* position of the run
    calls,        \* number of provider calls made so far
    pages,        \* number of describe_budgets pages fetched
    failedAt,     \* ordinal of the provider call that raised, 0 if none
    budgets,      \* main(): budgets
    idx,          \* get_overspend(): budgets classified so far
    overspend,    \* get_overspend(): res, then main(): overspend
    perfadata,    \* main(): perfadata
    called,       \* functions entered so far, in order
    stdout,       \* the line printed on standard output
    uncaught,     \* the exception that left main(), "" if none
    exitcode      \* process exit status

vars == <<budget_arg, pc, calls, pages, failedAt, budgets, idx, overspend,
          perfadata, called, stdout, uncaught, exitcode>>

EmptyRes == [k \in BOOLEAN |-> <<>>]

Init ==
    /\ budget_arg \in {""} \cup Names
    /\ pc = "main"
    /\ calls = 0
    /\ pages = 0
    /\ failedAt = 0
    /\ budgets = <<>>
    /\ idx = 0
    /\ overspend = EmptyRes
    /\ perfadata = Unbound
    /\ called = <<>>
    /\ stdout = ""
    /\ uncaught = ""
    /\ exitcode = Running

\* ------------------------------------------------------- ends of the run
\* sys.exit(state) after print(line).
Exit(line, state) ==
    /\ pc' = "done"
    /\ stdout' = line
    /\ exitcode' = state
    /\ uncaught' = ""

\* An exception no handler catches leaves main(): the interpreter prints the
\* traceback on standard error and the process ends with status 1.
Uncaught(err) ==
    /\ pc' = "done"
    /\ stdout' = stdout
    /\ exitcode' = 1
    /\ uncaught' = err

\* fetch_budget(): except (BotoCoreError, ClientError)
fetch_budget_except(err) ==
    IF err \in {"BotoCoreError", "ClientError"}
    THEN Exit("UNKNOWN - " \o err, STATE_UNKNOWN)
    ELSE Uncaught(err)

\* A handler that swallows the failure and returns what was fetched so far.
fetch_budgets_except_Swallow(err) ==
    /\ pc' = "get_overspend"
    /\ UNCHANGED <<stdout, exitcode, uncaught>>

\* fetch_budgets(): except BotoCoreError
fetch_budgets_except(err) ==
    IF err \in {"BotoCoreError"}
    THEN Exit("UNKNOWN - " \o err, STATE_UNKNOWN)
    ELSE Uncaught(err)

\* ------------------------------------------------------------- the fetches
\* main() enters fetch_budget(name) or fetch_budgets() and the function
\* asks STS for the caller's identity.
GetCallerIdentity ==
    /\ pc = "main"
    /\ calls' = calls + 1
    /\ called' = Append(called, IF budget_arg # "" THEN "fetch_budget"
                                                  ELSE "fetch_budgets")
    /\ pc' = IF budget_arg # "" THEN "describe_budget" ELSE "paginate"
    /\ UNCHANGED <<budget_arg, pages, failedAt, budgets, idx, overspend,
                   perfadata, stdout, uncaught, exitcode>>

GetCallerIdentityRaises(err) ==
    /\ pc = "main"
    /\ calls' = calls + 1
    /\ failedAt' = calls + 1
    /\ called' = Append(called, IF budget_arg # "" THEN "fetch_budget"
                                                  ELSE "fetch_budgets")
    /\ IF budget_arg # "" THEN fetch_budget_except(err)
                          ELSE fetch_budgets_except(err)
    /\ UNCHANGED <<budget_arg, pages, budgets, idx, overspend, perfadata>>

\* fetch_budget(): describe_budget returns the named budget.
DescribeBudget(b) ==
    /\ pc = "describe_budget"
    /\ b.BudgetName = budget_arg
    /\ calls' = calls + 1
    /\ budgets' = <<b>>
    /\ pc' = "get_overspend"
    /\ called' = Append(called, "get_overspend")
    /\ UNCHANGED <<budget_arg, pages, failedAt, idx, overspend, perfadata,
                   stdout, uncaught, exitcode>>

DescribeBudgetRaises(err) ==
    /\ pc = "describe_budget"
    /\ calls' = calls + 1
    /\ failedAt' = calls + 1
    /\ fetch_budget_except(err)
    /\ UNCHANGED <<budget_arg, pages, budgets, idx, overspend, perfadata,
                   called>>

\* fetch_budgets(): the paginator fetches the next page and the loop appends
\* its budgets; after the last page the function returns the list.
PaginatePage(page, more) ==
    /\ pc = "paginate"
    /\ pages < MaxPages
    /\ more => pages + 1 < MaxPages
    /\ calls' = calls + 1
    /\ pages' = pages + 1
    /\ budgets' = budgets \o page
    /\ pc' = IF more THEN "paginate" ELSE "get_overspend"
    /\ called' = IF more THEN called ELSE Append(called, "get_overspend")
    /\ UNCHANGED <<budget_arg, failedAt, idx, overspend, perfadata, stdout,
                   uncaught, exitcode>>

PaginateRaises(err) ==
    /\ pc = "paginate"
    /\ pages < MaxPages
    /\ calls' = calls + 1
    /\ failedAt' = calls + 1
    /\ fetch_budgets_except(err)
    /\ UNCHANGED <<budget_arg, pages, budgets, idx, overspend, perfadata,
                   called>>

\* ---------------------------------------------------------- get_overspend
\* A comparison that also counts equality as overspend.
Exceeds_OrEqual(amount, limit) == amount >= limit

\* forecast > limit, actual > limit
Exceeds(amount, limit) == amount > limit

\* The descriptor of the try branch, an f-string.
ForecastText(name, forecast, limit) ==
    name \o "(fcst:" \o Format2f(forecast) \o ";limit:" \o Format2f(limit) \o ")"

\* The descriptor of the except branch, a plain string literal.
ActualText(name, actual, limit) ==
    "{name}(act:{actual:.2f};limit:{limit:.2f})"

\* A loop body that prefers the actual spend and falls back on the forecast.
classify_ActualFirst(budget) ==
    IF budget.Limit = NoKey
    THEN [raised |-> "KeyError", key |-> FALSE, text |-> ""]
    ELSE LET limit == float(budget.Limit) IN
         IF budget.Actual # NoKey
         THEN LET actual == float(budget.Actual) IN
              [raised |-> "", key |-> Exceeds(actual, limit),
               text |-> ActualText(budget.BudgetName, actual, limit)]
         ELSE IF budget.Forecast = NoKey
         THEN [raised |-> "KeyError", key |-> FALSE, text |-> ""]
         ELSE LET forecast == float(budget.Forecast) IN
              [raised |-> "", key |-> Exceeds(forecast, limit),
               text |-> ForecastText(budget.BudgetName, forecast, limit)]

\* One iteration of the loop: the exception it raises, or the key of res it
\* appends to and the text it appends.
classify(budget) ==
    IF budget.Limit = NoKey
    THEN [raised |-> "KeyError", key |-> FALSE, text |-> ""]
    ELSE LET limit == float(budget.Limit) IN
         IF budget.Forecast # NoKey
         THEN LET forecast == float(budget.Forecast) IN
              [raised |-> "", key |-> Exceeds(forecast, limit),
               text |-> ForecastText(budget.BudgetName, forecast, limit)]
         ELSE IF budget.Actual = NoKey
         THEN [raised |-> "KeyError", key |-> FALSE, text |-> ""]
         ELSE LET actual == float(budget.Actual) IN
              [raised |-> "", key |-> Exceeds(actual, limit),
               text |-> ActualText(budget.BudgetName, actual, limit)]

\* An insert at the front of the list instead of an append.
Bucketed_Prepend(res, r) == [res EXCEPT ![r.key] = <<r.text>> \o @]

\* res[key].append(text)
Bucketed(res, r) == [res EXCEPT ![r.key] = Append(@, r.text)]

GetOverspendStep ==
    /\ pc = "get_overspend"
    /\ idx < Len(budgets)
    /\ LET r == classify(budgets[idx + 1]) IN
         IF r.raised # ""
         THEN /\ Uncaught(r.raised)
              /\ UNCHANGED <<idx, overspend>>
         ELSE /\ overspend' = Bucketed(overspend, r)
              /\ idx' = idx + 1
              /\ UNCHANGED <<pc, stdout, uncaught, exitcode>>
    /\ UNCHANGED <<budget_arg, calls, pages, failedAt, budgets, perfadata,
                   called>>

GetOverspendReturn ==
    /\ pc = "get_overspend"
    /\ idx = Len(budgets)
    /\ pc' = "get_perfdata"
    /\ called' = Append(called, "get_perfdata")
    /\ UNCHANGED <<budget_arg, calls, pages, failedAt, budgets, idx,
                   overspend, perfadata, stdout, uncaught, exitcode>>

\* ----------------------------------------------------------- get_perfdata
\* A token value taken from the forecast when there is one.
PerfValue_Forecast(budget) ==
    IF budget.Forecast # NoKey THEN budget.Forecast ELSE budget.Actual

\* The measured value of a token.
PerfValue(budget) == budget.Actual

PerfToken(budget) ==
    "'" \o budget.BudgetName \o "'=" \o str(PerfValue(budget)) \o budget.Unit
        \o ";" \o str(budget.Limit) \o ";" \o str(budget.Limit)

PerfRaises(budget) == budget.Actual = NoKey \/ budget.Limit = NoKey

get_perfdata(bs) ==
    IF \E i \in 1..Len(bs) : PerfRaises(bs[i])
    THEN [raised |-> "KeyError", text |-> ""]
    ELSE [raised |-> "",
          text |-> "| " \o join(" ", [i \in 1..Len(bs) |-> PerfToken(bs[i])])]

GetPerfdata ==
    /\ pc = "get_perfdata"
    /\ LET r == get_perfdata(budgets) IN
         IF r.raised # ""
         THEN /\ Uncaught(r.raised)
              /\ UNCHANGED perfadata
         ELSE /\ perfadata' = r.text
              /\ pc' = "report"
              /\ UNCHANGED <<stdout, uncaught, exitcode>>
    /\ UNCHANGED <<budget_arg, calls, pages, failedAt, budgets, idx,
                   overspend, called>>

\* ------------------------------------------------------------ the verdict
\* A verdict that is critical only when no budget is within limit.
IsCritical_NoneWithin(res) == res[FALSE] = <<>>

\* if overspend[True]:
IsCritical(res) == res[TRUE] # <<>>

CritLine(res, perf) ==
    "Budget forecast exceeds limit: " \o join(", ", res[TRUE]) \o perf

OkLine(res, perf) ==
    "Budgets forecast within limit: " \o join(", ", res[FALSE]) \o perf

Report ==
    /\ pc = "report"
    /\ IF IsCritical(overspend)
       THEN Exit(CritLine(overspend, perfadata), STATE_CRIT)
       ELSE Exit(OkLine(overspend, perfadata), STATE_OK)
    /\ UNCHANGED <<budget_arg, calls, pages, failedAt, budgets, idx,
                   overspend, perfadata, called>>

Next ==
    \/ GetCallerIdentity
    \/ \E err \in ProviderErrors : GetCallerIdentityRaises(err)
    \/ \E b \in BudgetPool : DescribeBudget(b)
    \/ \E err \in ProviderErrors : DescribeBudgetRaises(err)
    \/ \E page \in PagesAfter(budgets), more \in BOOLEAN : PaginatePage(page, more)
    \/ \E err \in ProviderErrors : PaginateRaises(err)
    \/ GetOverspendStep
    \/ GetOverspendReturn
    \/ GetPerfdata
    \/ Report

Spec == Init /\ [][Next]_vars

\* ------------------------------------------------ what the claims speak of
\* A record holding the required fields.
WellFormed(b) == b.Limit # NoKey /\ b.Actual # NoKey

AllWellFormed == \A i \in 1..Len(budgets) : WellFormed(budgets[i])

\* The fetch ended without a provider failure and the run has ended.
FetchedAndDone == pc = "done" /\ failedAt = 0

\* Forecast-first: the basis and the amount compared against the limit.
Basis(b) == IF b.Forecast # NoKey THEN "fcst" ELSE "act"

ComparisonAmount(b) ==
    IF b.Forecast # NoKey THEN float(b.Forecast) ELSE float(b.Actual)

Overspent(b) == ComparisonAmount(b) > float(b.Limit)

AtLimit(b) == ComparisonAmount(b) = float(b.Limit)

\* The descriptor the documentation describes: name(basis:amount;limit:limit).
Descriptor(b) ==
    b.BudgetName \o "(" \o Basis(b) \o ":" \o Format2f(ComparisonAmount(b))
        \o ";limit:" \o Format2f(float(b.Limit)) \o ")"

\* The texts that carry a basis tag: the descriptor, or its uninterpolated
\* template.
TextsTagged(b, tag) ==
    { b.BudgetName \o "(" \o tag \o ":" \o Format2f(ComparisonAmount(b))
          \o ";limit:" \o Format2f(float(b.Limit)) \o ")",
      "{name}(" \o tag \o ":{" \o (IF tag = "fcst" THEN "forecast" ELSE "actual")
          \o ":.2f};limit:{limit:.2f})" }

\* Where the i-th budget's descriptor stands within its group, when every
\* budget up to it is grouped by Overspent.
PlaceOf(i) ==
    Cardinality({ j \in 1..i : Overspent(budgets[j]) = Overspent(budgets[i]) })

\* The budgets of bs that are overspent (flag) or within limit, in order.
RECURSIVE Group(_, _)
Group(bs, flag) ==
    IF bs = <<>> THEN <<>>
    ELSE IF Overspent(Head(bs)) = flag
         THEN <<Head(bs)>> \o Group(Tail(bs), flag)
         ELSE Group(Tail(bs), flag)

\* The descriptors the evaluator renders for a list of budgets.
Rendered(bs) == [i \in 1..Len(bs) |-> classify(bs[i]).text]

\* The token of a budget: actual spend as the value, the limit twice.
Token(b) ==
    "'" \o b.BudgetName \o "'=" \o str(b.Actual) \o b.Unit \o ";"
        \o str(b.Limit) \o ";" \o str(b.Limit)

PerfBlock(bs) == "| " \o join(" ", [i \in 1..Len(bs) |-> Token(bs[i])])

\* ------------------------------------------------------------------ claims

\* C1: for every list of well-formed budgets that was fetched successfully,
\* the run exits with code 2 if at least one budget is overspent and with
\* code 0 if none is, the empty list included.
C1_ExitCode ==
    (FetchedAndDone /\ AllWellFormed) =>
        exitcode = IF \E i \in 1..Len(budgets) : Overspent(budgets[i])
                   THEN 2 ELSE 0

C1_Witness ==
    /\ FetchedAndDone /\ AllWellFormed
    /\ Len(budgets) = 2
    /\ Overspent(budgets[2]) /\ ~Overspent(budgets[1])
    /\ exitcode = 2

\* C2: a provider failure in either mode ends the run with exit code 3
\* (UNKNOWN) and the run never reaches get_overspend or get_perfdata,
\* whatever the kind of failure.
C2_ProviderFailureUnknown ==
    failedAt # 0 =>
        /\ pc = "done"
        /\ exitcode = STATE_UNKNOWN
        /\ \A i \in 1..Len(called) : called[i] \notin {"get_overspend", "get_perfdata"}

\* C3: every classified budget stands in the group its forecast decides
\* whenever it has a forecast, whatever its actual spend, and in the group
\* its actual spend decides exactly when it has none; its descriptor carries
\* the tag of the amount that was used.
C3_ForecastFirst ==
    pc \in {"get_overspend", "get_perfdata", "report"} \/ exitcode \in {0, 2} =>
        \A i \in 1..idx :
            LET b == budgets[i]
                group == overspend[Overspent(b)]
            IN /\ PlaceOf(i) <= Len(group)
               /\ group[PlaceOf(i)] \in TextsTagged(b, Basis(b))

C3_Witness ==
    /\ idx = 2
    /\ budgets[1].Forecast # NoKey /\ budgets[1].Actual # NoKey
    /\ float(budgets[1].Forecast) > float(budgets[1].Limit)
    /\ float(budgets[1].Actual) < float(budgets[1].Limit)
    /\ budgets[2].Forecast # NoKey /\ budgets[2].Actual # NoKey
    /\ float(budgets[2].Forecast) < float(budgets[2].Limit)
    /\ float(budgets[2].Actual) > float(budgets[2].Limit)
    /\ Len(overspend[TRUE]) = 1 /\ Len(overspend[FALSE]) = 1

\* C4: a budget is overspent only when its comparison amount is strictly
\* greater than its limit; budgets whose comparison amount equals the limit
\* are within limit, and a run whose budgets all sit at their limit exits 0.
C4_StrictComparison ==
    /\ Len(overspend[TRUE]) <=
           Cardinality({ i \in 1..idx :
               ComparisonAmount(budgets[i]) > float(budgets[i].Limit) })
    /\ (\A i \in 1..idx : AtLimit(budgets[i]))
           => overspend[TRUE] = <<>>
    /\ (FetchedAndDone /\ AllWellFormed /\ \A i \in 1..Len(budgets) : AtLimit(budgets[i]))
           => exitcode = 0

C4_Witness ==
    /\ FetchedAndDone
    /\ Len(budgets) = 2
    /\ \A i \in 1..2 : WellFormed(budgets[i]) /\ AtLimit(budgets[i])
    /\ Basis(budgets[1]) = "fcst" /\ Basis(budgets[2]) = "act"
    /\ exitcode = 0

\* C5: if a fetched record lacks the actual spend or the limit, the run
\* aborts with exit code 3 (UNKNOWN) and prints no OK or CRITICAL verdict.
C5_MalformedUnknown ==
    (FetchedAndDone /\ ~AllWellFormed) =>
        /\ exitcode = STATE_UNKNOWN
        /\ stdout \notin {CritLine(overspend, perfadata), OkLine(overspend, perfadata)}

\* C6: the descriptor of every classified budget, on either basis, is
\* name(basis:amount;limit:limit) built from the budget's own name, its
\* comparison amount and its limit, so two budgets never share a descriptor.
C6_DescriptorContent ==
    \A i \in 1..idx :
        LET b == budgets[i]
            group == overspend[Overspent(b)]
        IN /\ PlaceOf(i) <= Len(group)
           /\ group[PlaceOf(i)] = Descriptor(b)

\* C7: a CRITICAL summary lists the descriptors of exactly the overspent
\* budgets, one each, in the order fetched; an OK summary lists the
\* descriptor of every fetched budget, in the order fetched.
C7_SummaryPartition ==
    /\ (pc = "done" /\ exitcode = STATE_CRIT) =>
           stdout = "Budget forecast exceeds limit: "
                      \o join(", ", Rendered(Group(budgets, TRUE))) \o perfadata
    /\ (pc = "done" /\ exitcode = STATE_OK) =>
           /\ stdout = "Budgets forecast within limit: "
                         \o join(", ", Rendered(budgets)) \o perfadata
           /\ Group(budgets, TRUE) = <<>>

C7_Witness ==
    /\ pc = "done" /\ exitcode = STATE_CRIT
    /\ Len(budgets) = 2
    /\ ~Overspent(budgets[1])
    /\ Basis(budgets[2]) = "fcst" /\ Overspent(budgets[2])
    /\ stdout # ""

\* C8: in every OK or CRITICAL output the perfdata block holds one token per
\* fetched budget, in the order fetched, overspent or not; the value of a
\* token is the actual spend, never the forecast, and both thresholds are
\* the limit.
C8_PerfdataComplete ==
    (pc = "done" /\ exitcode \in {STATE_OK, STATE_CRIT}) =>
        /\ perfadata = PerfBlock(budgets)
        /\ stdout = IF exitcode = STATE_CRIT
                    THEN CritLine(overspend, PerfBlock(budgets))
                    ELSE OkLine(overspend, PerfBlock(budgets))

C8_Witness ==
    /\ pc = "done" /\ exitcode = STATE_CRIT
    /\ Len(budgets) = 2
    /\ Basis(budgets[1]) = "fcst" /\ Overspent(budgets[1])
    /\ budgets[1].Forecast # budgets[1].Actual
    /\ ~Overspent(budgets[2])

\* C9: every run ends with an exit code in {0, 2, 3}; exit code 1 is never
\* produced, whatever the provider returns and however it fails.
C9_NeverExitOne ==
    /\ exitcode # STATE_WARN
    /\ pc = "done" => exitcode \in {STATE_OK, STATE_CRIT, STATE_UNKNOWN}

\* C10: in all-budgets mode, when the fetch of a page fails after earlier
\* pages succeeded, the run ends without exit code 0 and without an OK or
\* CRITICAL verdict from the pages fetched before; the fetch is not retried
\* and it is the last provider call of the run.
C10_NoPartialSuccess ==
    (budget_arg = "" /\ failedAt # 0 /\ pages >= 1) =>
        /\ pc = "done"
        /\ exitcode \notin {STATE_OK, STATE_CRIT}
        /\ stdout \in {"", "UNKNOWN - BotoCoreError"}
        /\ perfadata = Unbound /\ idx = 0
        /\ calls = failedAt

C10_Witness ==
    /\ budget_arg = "" /\ failedAt # 0 /\ pages >= 1
    /\ Len(budgets) >= 1
    /\ \E i \in 1..Len(budgets) : WellFormed(budgets[i]) /\ ~Overspent(budgets[i])
    /\ pc = "done"
====
